---- MODULE Spec2Model ----
(***************************************************************************)
(* Model of github_builder_app.py: a Streamlit page that lists the remote  *)
(* branches of a repository, clones one branch into workspace/, locates a  *)
(* conventional build folder and zips it for download.                     *)
(*                                                                         *)
(* Paths are sequences of names, and the filesystem is a function from the *)
(* paths that exist to their nodes.                                        *)
(***************************************************************************)
EXTENDS Integers, Sequences, FiniteSets, TLC

VARIABLES
    repo_url,          \* value of the st.text_input widget
    branches,          \* st.session_state.branches
    selected_branch,   \* st.session_state.selected_branch
    fs,                \* the filesystem below the working directory
    run,               \* what the last run of main() / the last call did
    fetched            \* history: url -> result of its last successful get_branches

vars == <<repo_url, branches, selected_branch, fs, run, fetched>>

----------------------------------------------------------------------------
(* Python str operations *)

\* code-point order of the characters that occur in the model (for sorted())
CharOrder ==
    << "-", ".", "/", ":", "A", "D", "E", "H", "I", "M", "U", "_",
       "a", "b", "c", "d", "e", "f", "g", "h", "i", "k", "l", "m", "n", "o",
       "p", "r", "s", "t", "u", "v", "w", "x", "y", "z" >>

Ord(c) == CHOOSE i \in 1..Len(CharOrder) : CharOrder[i] = c

\* the character of s at position i
At(s, i) == SubSeq(s, i, i)

\* a < b for Python str
StrLess(a, b) ==
    \E k \in 1..Len(b) :
        /\ \A i \in 1..(k-1) : i <= Len(a) /\ At(a, i) = At(b, i)
        /\ (k > Len(a) \/ Ord(At(a, k)) < Ord(At(b, k)))

\* sorted(S) for a set S of str
RECURSIVE sorted(_)
sorted(S) ==
    IF S = {} THEN <<>>
    ELSE LET m == CHOOSE x \in S : \A y \in S : x = y \/ StrLess(x, y)
         IN  <<m>> \o sorted(S \ {m})

\* s.rstrip('/')
RECURSIVE rstrip_slash(_)
rstrip_slash(s) ==
    IF Len(s) > 0 /\ At(s, Len(s)) = "/"
    THEN rstrip_slash(SubSeq(s, 1, Len(s) - 1))
    ELSE s

\* s.split('/')[-1]
split_last(s) ==
    LET cuts == {i \in 1..Len(s) : At(s, i) = "/"}
        last == IF cuts = {} THEN 0
                ELSE CHOOSE i \in cuts : \A j \in cuts : j <= i
    IN  SubSeq(s, last + 1, Len(s))

\* Python None; like "" it is falsy, and no branch name or path is empty
None == ""

\* None where a Path is expected
NoPath == <<>>

----------------------------------------------------------------------------
(* pathlib / os / shutil on the modelled filesystem *)

DirNode == [kind |-> "dir", data |-> "", entries |-> {}]
FileNode(d) == [kind |-> "file", data |-> d, entries |-> {}]
ZipNode(es) == [kind |-> "file", data |-> "zip", entries |-> es]

IsPrefix(p, q) == Len(p) <= Len(q) /\ SubSeq(q, 1, Len(p)) = p

\* PurePath.relative_to
relative_to(path, base) == SubSeq(path, Len(base) + 1, Len(path))

\* Path.exists / Path.is_dir
exists(f, p) == p \in DOMAIN f
is_dir(f, p) == p \in DOMAIN f /\ f[p].kind = "dir"

\* shutil.rmtree(p): p and everything below it is gone
rmtree(f, p) == [q \in {q \in DOMAIN f : ~IsPrefix(p, q)} |-> f[q]]

\* the tree rooted at p, keyed by paths relative to p
Subtree(f, p) ==
    [r \in {relative_to(q, p) : q \in {q \in DOMAIN f : IsPrefix(p, q)}} |-> f[p \o r]]

\* the nodes of tree t written below dest
Place(f, dest, t) ==
    [q \in DOMAIN f \cup {dest \o r : r \in DOMAIN t} |->
        IF IsPrefix(dest, q) /\ relative_to(q, dest) \in DOMAIN t
        THEN t[relative_to(q, dest)] ELSE f[q]]

\* tree t cut down to the paths in keep
Restrict(t, keep) == [r \in DOMAIN t \cap keep |-> t[r]]

WORKSPACE_DIR == <<"workspace">>

BUILD_DIRS(project_type) ==
    IF project_type = "UI" THEN <<"build", "dist", "out">>
    ELSE <<"target", "app", "output">>

ProjectTypes == {"UI", "Microservice"}

----------------------------------------------------------------------------
(* The remote repositories the session talks to *)

U_demo == "https://example.com/demo.git"
U_repo == "https://github.com/user/repo/"
Urls == {U_demo, U_repo}


\* the branch names of the remote at url
RemoteBranches(url) ==
    IF url = U_demo THEN {"main", "dev"} ELSE IF url = U_repo THEN {"feature/x"} ELSE {}

\* the branch a clone without branch= checks out
DefaultBranch(url) == IF url = U_demo THEN "main" ELSE "feature/x"

\* a UI project with a nested build folder and an empty dist folder
TreeUI ==
    (<<>> :> DirNode) @@ (<<"build">> :> DirNode) @@ (<<"build", "app">> :> FileNode("f1"))
    @@ (<<"build", "out">> :> DirNode) @@ (<<"build", "out", "app">> :> FileNode("f2"))
    @@ (<<"dist">> :> DirNode)
\* a service whose "target" is a regular file and whose "app" is a folder
TreeService ==
    (<<>> :> DirNode) @@ (<<"target">> :> FileNode("f3"))
    @@ (<<"app">> :> DirNode) @@ (<<"app", "dist">> :> FileNode("f4"))
\* no build folder at all
TreeBare == (<<>> :> DirNode) @@ (<<"workspace">> :> FileNode("f5"))

\* the working tree of a branch of the remote at url
Content(url, branch) ==
    IF url = U_demo THEN (IF branch = "main" THEN TreeUI ELSE TreeService)
    ELSE TreeBare

\* ref.name of every item of repo.remote().refs after a clone of url
RefNames(heads, has_head) ==
    {"origin" \o "/" \o b : b \in heads}
        \cup (IF has_head THEN {"origin" \o "/" \o "HEAD"} ELSE {})

\* exceptions the git client raises
GitFailures == {"GitCommandError", "GitCommandNotFound"}

\* Repo.clone_from(url, dest, branch=branch).  env.clone is "ok" or the failure
\* of the remote or the client; a failed clone leaves env.left of the tree
\* behind (nothing when the client never ran).  git refuses a destination
\* that exists and is not an empty directory.
Repo_clone_from(f, url, dest, branch, env) ==
    IF exists(f, dest) /\ ~(is_dir(f, dest) /\ DOMAIN Subtree(f, dest) = {<<>>})
    THEN [fs |-> f, exc |-> "GitCommandError"]
    ELSE IF env.clone = "GitCommandNotFound"
    THEN [fs |-> f, exc |-> "GitCommandNotFound"]
    ELSE IF branch \notin RemoteBranches(url)
    THEN [fs |-> Place(f, dest, Restrict((<<>> :> DirNode), env.left)),
          exc |-> "GitCommandError"]
    ELSE IF env.clone = "ok"
    THEN [fs |-> Place(f, dest, Content(url, branch)), exc |-> "none"]
    ELSE [fs |-> Place(f, dest, Restrict(Content(url, branch), env.left)),
          exc |-> env.clone]

\* shutil.rmtree(p) that may fail (a file that cannot be removed) and then
\* raises OSError with the tree still there
shutil_rmtree(f, p, ok) ==
    IF ok THEN [fs |-> rmtree(f, p), exc |-> "none"]
    ELSE [fs |-> f, exc |-> "OSError"]

----------------------------------------------------------------------------
(* The program's functions.  Each returns the filesystem after the call, *)
(* the exception it raised ("none" when it returned) and its value.      *)

\* clone_repo without the delete: the clone goes over whatever is there
clone_repo_keep_old(f, repo_url_, dest_path, branch, env) ==
    Repo_clone_from(f, repo_url_, dest_path, branch, env)

clone_repo(f, repo_url_, dest_path, branch, env) ==
    LET r1 == IF exists(f, dest_path) THEN shutil_rmtree(f, dest_path, env.rm)
              ELSE [fs |-> f, exc |-> "none"]
    IN  IF r1.exc # "none" THEN r1
        ELSE Repo_clone_from(r1.fs, repo_url_, dest_path, branch, env)

tmp_path == WORKSPACE_DIR \o <<"temp_repo">>

\* the list comprehension and sorted(set(...)) of get_branches
branch_names(refs) == sorted({split_last(name) : name \in refs})

get_branches(f, repo_url_, refs, env) ==
    LET r1 == IF exists(f, tmp_path) THEN shutil_rmtree(f, tmp_path, env.rm)
              ELSE [fs |-> f, exc |-> "none"]
        r2 == Repo_clone_from(r1.fs, repo_url_, tmp_path, DefaultBranch(repo_url_), env)
        r3 == shutil_rmtree(r2.fs, tmp_path, env.rm2)
    IN  IF r1.exc # "none" THEN [fs |-> r1.fs, exc |-> r1.exc, value |-> <<>>]
        ELSE IF r2.exc # "none" THEN [fs |-> r2.fs, exc |-> r2.exc, value |-> <<>>]
        ELSE IF r3.exc # "none" THEN [fs |-> r3.fs, exc |-> r3.exc, value |-> <<>>]
        ELSE [fs |-> r3.fs, exc |-> "none", value |-> branch_names(refs)]

\* os.walk(top): the paths of the non-directory entries at any depth
RECURSIVE os_walk_files(_, _)
os_walk_files(f, top) ==
    LET below == {q \in DOMAIN f : Len(q) = Len(top) + 1 /\ IsPrefix(top, q)}
    IN  {q \in below : f[q].kind # "dir"}
            \cup UNION {os_walk_files(f, d) : d \in {q \in below : f[q].kind = "dir"}}

\* zipf.write(file_path, file): the entry named by the file name alone
zip_entries_basename(f, source_dir) ==
    {[name |-> <<file_path[Len(file_path)]>>, data |-> f[file_path].data] :
        file_path \in os_walk_files(f, source_dir)}

\* the entries zipf.write adds: arcname and the file's bytes
zip_entries(f, source_dir) ==
    {[name |-> relative_to(file_path, source_dir), data |-> f[file_path].data] :
        file_path \in os_walk_files(f, source_dir)}

\* ZipFile(zip_path, 'w') truncates; io_ok = FALSE is a destination that
\* cannot be created
zip_directory(f, source_dir, zip_path, io_ok) ==
    IF ~io_ok THEN [fs |-> f, exc |-> "OSError"]
    ELSE [fs |-> Place(f, zip_path, (<<>> :> ZipNode(zip_entries(f, source_dir)))),
          exc |-> "none"]

RECURSIVE first_dir(_, _, _)
first_dir(f, repo_path, folders) ==
    IF folders = <<>> THEN NoPath
    ELSE LET candidate == repo_path \o <<Head(folders)>>
         IN  IF exists(f, candidate) /\ is_dir(f, candidate) THEN candidate
             ELSE first_dir(f, repo_path, Tail(folders))

\* find_build_dir without is_dir(): the first candidate that exists at all
find_build_dir_any_entry(f, repo_path, project_type) ==
    LET c == BUILD_DIRS(project_type)
        there == {i \in 1..Len(c) : exists(f, repo_path \o <<c[i]>>)}
    IN  IF there = {} THEN NoPath
        ELSE repo_path \o <<c[CHOOSE i \in there : \A j \in there : i <= j]>>

find_build_dir(f, repo_path, project_type) ==
    first_dir(f, repo_path, BUILD_DIRS(project_type))

----------------------------------------------------------------------------
(* main(): one run of the Streamlit script *)

Range(q) == {q[i] : i \in 1..Len(q)}

Step(fn, ok) == [fn |-> fn, ok |-> ok]

NoBuild ==
    [steps |-> <<>>, clone_url |-> None, clone_branch |-> None, repo_path |-> NoPath,
     project_type |-> None, build_path |-> NoPath, zip_path |-> NoPath, download |-> None]

\* the first page load: nothing clicked
FirstRun == [click |-> "none", msgs |-> <<>>, raised |-> "none"] @@ NoBuild

\* whether the run got as far as the branch selector and the build button
RenderedAll(r) == ~(r.click = "fetch" /\ r.raised # "none")

\* the guard without the branch test
missing_input_url_only(url, selected) == url = ""

\* the guard of the build action
missing_input(url, selected) == url = "" \/ selected = None

repo_name_of(url) == split_last(rstrip_slash(url))

\* f"{repo_name}-{branch}" and f"{repo_name}-{branch}-{project_type}.zip"
clone_dir_name(repo_name, branch) == repo_name \o "-" \o branch
zip_file_name(repo_name, branch, project_type) ==
    repo_name \o "-" \o branch \o "-" \o project_type \o ".zip"

\* the "Fetch Branches" button pressed
fetch_clicked(f, url, old_branches, env) ==
    LET r == get_branches(f, url, RefNames(RemoteBranches(url), TRUE), env)
    IN  IF r.exc = "none"
        THEN [fs |-> r.fs, branches |-> r.value, fetched |-> TRUE,
              msgs |-> <<"success: Branches fetched.">>, raised |-> "none"]
        ELSE IF r.exc = "GitCommandError"
        THEN [fs |-> r.fs, branches |-> old_branches, fetched |-> FALSE,
              msgs |-> <<"error: Failed to fetch branches">>, raised |-> "none"]
        ELSE [fs |-> r.fs, branches |-> old_branches, fetched |-> FALSE,
              msgs |-> <<>>, raised |-> r.exc]

\* st.selectbox("Select Branch", options): the user's pick while the same
\* options stay on the page, the first option otherwise
selectbox(options, old_options, kept) ==
    IF options = old_options /\ kept \in Range(options) THEN kept ELSE options[1]

\* after_clone without the return on a miss: the whole clone is packaged
after_clone_no_abort(f, repo_name, branch, repo_path, project_type, env) ==
    LET found == first_dir(f, repo_path, BUILD_DIRS(project_type))
        build_path == IF found = NoPath THEN repo_path ELSE found
        zip_filename == repo_name \o "-" \o branch \o "-" \o project_type \o ".zip"
        zip_path == WORKSPACE_DIR \o <<zip_filename>>
    IN  [fs |-> Place(f, zip_path, (<<>> :> ZipNode(zip_entries(f, build_path)))),
         raised |-> "none",
         msgs |-> <<"info: Cloning", "success: Repository cloned.", "info: Searching",
                    "success: Packaged">>,
         steps |-> <<[fn |-> "clone_repo", ok |-> TRUE],
                     [fn |-> "find_build_dir", ok |-> found # NoPath],
                     [fn |-> "zip_directory", ok |-> TRUE], [fn |-> "open", ok |-> TRUE],
                     [fn |-> "download_button", ok |-> TRUE]>>,
         build_path |-> build_path, zip_path |-> zip_path, download |-> zip_filename]

\* what happens after a clone that returned: locate, archive, download
after_clone(f, repo_name, branch, repo_path, project_type, env) ==
    LET build_path == find_build_dir(f, repo_path, project_type)
        zip_filename == zip_file_name(repo_name, branch, project_type)
        zip_path == WORKSPACE_DIR \o <<zip_filename>>
        z == zip_directory(f, build_path, zip_path, env.zip)
        base == <<Step("clone_repo", TRUE)>>
        m == <<"info: Cloning", "success: Repository cloned.", "info: Searching">>
    IN  IF build_path = NoPath
        THEN [fs |-> f, raised |-> "none",
              msgs |-> m \o <<"error: No build folder found">>,
              steps |-> base \o <<Step("find_build_dir", FALSE)>>,
              build_path |-> NoPath, zip_path |-> NoPath, download |-> None]
        ELSE IF z.exc # "none"
        THEN [fs |-> z.fs, raised |-> z.exc, msgs |-> m,
              steps |-> base \o <<Step("find_build_dir", TRUE), Step("zip_directory", FALSE)>>,
              build_path |-> build_path, zip_path |-> zip_path, download |-> None]
        ELSE IF ~env.open
        THEN [fs |-> z.fs, raised |-> "OSError", msgs |-> m \o <<"success: Packaged">>,
              steps |-> base \o <<Step("find_build_dir", TRUE), Step("zip_directory", TRUE),
                                  Step("open", FALSE)>>,
              build_path |-> build_path, zip_path |-> zip_path, download |-> None]
        ELSE [fs |-> z.fs, raised |-> "none", msgs |-> m \o <<"success: Packaged">>,
              steps |-> base \o <<Step("find_build_dir", TRUE), Step("zip_directory", TRUE),
                                  Step("open", TRUE), Step("download_button", TRUE)>>,
              build_path |-> build_path, zip_path |-> zip_path, download |-> zip_filename]

\* the "Build & Package" button pressed
build_clicked(f, url, selected, project_type, env) ==
    LET branch == selected
        repo_name == repo_name_of(url)
        repo_path == WORKSPACE_DIR \o <<clone_dir_name(repo_name, branch)>>
        c == clone_repo(f, url, repo_path, branch, env)
        a == after_clone(c.fs, repo_name, branch, repo_path, project_type, env)
        called == [clone_url |-> url, clone_branch |-> branch, repo_path |-> repo_path,
                   project_type |-> project_type]
    IN  IF missing_input(url, selected)
        THEN [fs |-> f, raised |-> "none",
              msgs |-> <<"warning: Please provide a GitHub URL and select a branch.">>]
             @@ NoBuild
        ELSE IF c.exc # "none"
        THEN [fs |-> c.fs, raised |-> "none",
              msgs |-> <<"info: Cloning", "error: Error cloning repo">>,
              steps |-> <<Step("clone_repo", FALSE)>>,
              build_path |-> NoPath, zip_path |-> NoPath, download |-> None] @@ called
        ELSE a @@ called

----------------------------------------------------------------------------
(* The session: the user's actions, each one run of main() *)

\* what the remote, the client and the disk may do during one run: all goes
\* well, or one thing fails (a failed build clone leaves nothing behind here;
\* SpecClone covers the partial clones)
OkEnv ==
    [rm |-> TRUE, clone |-> "ok", left |-> {}, rm2 |-> TRUE, zip |-> TRUE, open |-> TRUE]
FetchEnvs ==
    {OkEnv, [OkEnv EXCEPT !.rm = FALSE],
     [OkEnv EXCEPT !.clone = "GitCommandError"],
     [OkEnv EXCEPT !.clone = "GitCommandError", !.left = {<<>>}],
     [OkEnv EXCEPT !.clone = "GitCommandNotFound"]}
BuildEnvs ==
    {OkEnv, [OkEnv EXCEPT !.rm = FALSE],
     [OkEnv EXCEPT !.clone = "GitCommandError"],
     [OkEnv EXCEPT !.clone = "GitCommandNotFound"],
     [OkEnv EXCEPT !.zip = FALSE], [OkEnv EXCEPT !.open = FALSE]}

\* the selector's value in a run: lines 87-92
select_branch(options, old_options, kept, old_selected) ==
    IF options # <<>> THEN selectbox(options, old_options, kept) ELSE old_selected

\* the pick the selector still holds from the last run
Kept == IF RenderedAll(run) THEN selected_branch ELSE None

Init ==
    /\ repo_url = ""
    /\ branches = <<>>
    /\ selected_branch = None
    /\ fs = (WORKSPACE_DIR :> DirNode)
    /\ run = FirstRun
    /\ fetched = [u \in Urls |-> <<>>]

\* the user types another URL: a run with no button pressed
EditUrl(u) ==
    /\ u # repo_url
    /\ repo_url' = u
    /\ selected_branch' = select_branch(branches, branches, Kept, selected_branch)
    /\ run' = FirstRun
    /\ UNCHANGED <<branches, fs, fetched>>

\* the user picks another branch in the selector
SelectBranch(b) ==
    /\ RenderedAll(run)
    /\ b \in Range(branches)
    /\ b # selected_branch
    /\ selected_branch' = select_branch(branches, branches, b, selected_branch)
    /\ run' = FirstRun
    /\ UNCHANGED <<repo_url, branches, fs, fetched>>

ClickFetch(env) ==
    /\ repo_url # ""
    /\ LET r == fetch_clicked(fs, repo_url, branches, env)
       IN  /\ branches' = r.branches
           /\ fs' = r.fs
           /\ selected_branch' =
                 IF r.raised # "none" THEN selected_branch
                 ELSE select_branch(r.branches, branches, Kept, selected_branch)
           /\ run' = [click |-> "fetch", msgs |-> r.msgs, raised |-> r.raised] @@ NoBuild
           /\ fetched' = IF r.fetched THEN [fetched EXCEPT ![repo_url] = r.branches]
                         ELSE fetched
    /\ UNCHANGED repo_url

ClickBuild(project_type, env) ==
    /\ RenderedAll(run)
    /\ LET selected == select_branch(branches, branches, Kept, selected_branch)
           b == build_clicked(fs, repo_url, selected, project_type, env)
       IN  /\ selected_branch' = selected
           /\ fs' = b.fs
           /\ run' = [click |-> "build"] @@ [x \in DOMAIN b \ {"fs"} |-> b[x]]
    /\ UNCHANGED <<repo_url, branches, fetched>>

Next ==
    \/ \E u \in Urls \cup {""} : EditUrl(u)
    \/ \E b \in Range(branches) : SelectBranch(b)
    \/ \E env \in FetchEnvs : ClickFetch(env)
    \/ \E project_type \in ProjectTypes, env \in BuildEnvs : ClickBuild(project_type, env)

Spec == Init /\ [][Next]_vars

----------------------------------------------------------------------------
(* Claims about the session *)

\* C1: after any call of get_branches, whether it returned or raised, the
\* transient directory workspace/temp_repo does not exist.
C1_TempRepoRemoved == run.click = "fetch" => ~exists(fs, tmp_path)

\* C2: every failure raised inside a user action is caught within that action
\* and shown as a message; none propagates out of main.
C2_NoFailureLeavesMain == run.raised = "none"

\* the files of the workspace that are archives
Archives(f) == {q \in DOMAIN f : f[q].data = "zip"}

\* C3: a build triggered with the URL empty or no branch selected shows the
\* warning and returns with the filesystem exactly as it was.
C3_RejectedBuildTouchesNothing ==
    [][(run'.click = "build" /\ (repo_url = "" \/ selected_branch' = None))
        => /\ fs' = fs
           /\ run'.msgs = <<"warning: Please provide a GitHub URL and select a branch.">>
           /\ run'.steps = <<>>]_vars

\* a rejected build in a workspace that already holds a clone
C3_Witness ==
    /\ run.click = "build"
    /\ repo_url = ""
    /\ selected_branch # None
    /\ run.msgs = <<"warning: Please provide a GitHub URL and select a branch.">>
    /\ \E q \in DOMAIN fs : Len(q) > 1

\* the name of the repository a URL points at: the last path segment, without
\* trailing slashes and without the ".git" suffix
RepositoryName(url) ==
    LET seg == split_last(rstrip_slash(url))
        n == Len(seg)
    IN  IF n >= 4 /\ SubSeq(seg, n - 3, n) = ".git"
        THEN SubSeq(seg, 1, n - 4) ELSE seg

\* C4: a successful build for URL U, branch B and type T clones into
\* workspace/<repoName>-<B> and writes workspace/<repoName>-<B>-<T>.zip, where
\* repoName is the repository's name; for https://example.com/demo.git, main
\* and UI these are workspace/demo-main and workspace/demo-main-UI.zip.
C4_PathsNamedAfterRepository ==
    (run.click = "build" /\ run.download # None) =>
        LET name == RepositoryName(run.clone_url)
        IN  /\ run.repo_path =
                  <<"workspace", name \o "-" \o run.clone_branch>>
            /\ run.zip_path =
                  <<"workspace", name \o "-" \o run.clone_branch \o "-"
                                 \o run.project_type \o ".zip" >>
            /\ is_dir(fs, run.repo_path)
            /\ exists(fs, run.zip_path)

StepNames(r) == [i \in 1..Len(r.steps) |-> r.steps[i].fn]
Failed(r, fn) == \E i \in 1..Len(r.steps) : r.steps[i].fn = fn /\ ~r.steps[i].ok

\* C8: in one build the steps run in the order clone, locate, archive,
\* download; the download is rendered only after the clone succeeded, the
\* locator found a folder and the archive was written; a failed clone or a
\* locator miss ends the action there with an error message, and that run
\* writes no archive and renders no download.
C8_BuildStepsInOrder ==
    [][run'.click = "build" =>
        /\ run'.download # None =>
              /\ StepNames(run') = <<"clone_repo", "find_build_dir", "zip_directory",
                                     "open", "download_button">>
              /\ \A i \in 1..Len(run'.steps) : run'.steps[i].ok
              /\ exists(fs', run'.zip_path)
              /\ fs'[run'.zip_path].entries = zip_entries(fs', run'.build_path)
        /\ (Failed(run', "clone_repo") \/ Failed(run', "find_build_dir")) =>
              /\ StepNames(run') \in {<<"clone_repo">>, <<"clone_repo", "find_build_dir">>}
              /\ ~run'.steps[Len(run'.steps)].ok
              /\ run'.msgs[Len(run'.msgs)] \in
                    {"error: Error cloning repo", "error: No build folder found"}
              /\ run'.download = None
              /\ Archives(fs') = Archives(fs)
              /\ \A q \in Archives(fs) : fs'[q] = fs[q]
        /\ \E k \in 0..5 : StepNames(run') =
              SubSeq(<<"clone_repo", "find_build_dir", "zip_directory", "open",
                       "download_button">>, 1, k)]_vars

\* a run that rendered the download, and one earlier build's archive beside it
C8_Witness ==
    /\ run.click = "build"
    /\ run.download # None
    /\ Cardinality(Archives(fs)) = 2

\* C10: whenever a build reaches the clone step, the branch passed to
\* clone_repo is a member of the list the most recent successful fetch
\* returned for the URL being cloned.
C10_BranchBelongsToClonedUrl ==
    (run.click = "build" /\ run.clone_url # None) =>
        run.clone_branch \in Range(fetched[run.clone_url])

----------------------------------------------------------------------------
(* get_branches on its own: any set of remote heads *)

\* the session's variables, unused by the specifications of single functions
SessionIdle ==
    /\ repo_url = ""
    /\ branches = <<>>
    /\ selected_branch = None
    /\ fetched = [u \in Urls |-> <<>>]

HeadNames == {"main", "dev", "feature/x", "hotfix/x", "x"}

InitBranches ==
    /\ SessionIdle
    /\ fs = (WORKSPACE_DIR :> DirNode)
    /\ run = [op |-> "start", heads |-> {}, has_head |-> FALSE, exc |-> "none",
              value |-> <<>>]

ListBranches(heads, has_head, env) ==
    /\ LET r == get_branches(fs, U_demo, RefNames(heads, has_head), env)
       IN  /\ fs' = r.fs
           /\ run' = [op |-> "get_branches", heads |-> heads, has_head |-> has_head,
                      exc |-> r.exc, value |-> r.value]
    /\ UNCHANGED <<repo_url, branches, selected_branch, fetched>>

NextBranches ==
    \E heads \in SUBSET HeadNames \ {{}}, has_head \in BOOLEAN,
       env \in FetchEnvs \cup {[OkEnv EXCEPT !.rm2 = FALSE]} :
        ListBranches(heads, has_head, env)

SpecBranches == InitBranches /\ [][NextBranches]_vars

IsSorted(q) == \A i \in 1..(Len(q) - 1) : StrLess(q[i], q[i + 1])

\* C5: for every set of remote branches (names with '/' and the symbolic HEAD
\* included) get_branches returns a sorted, duplicate-free sequence whose
\* elements are exactly the remote branch names.
C5_BranchListIsTheRemoteBranches ==
    (run.op = "get_branches" /\ run.exc = "none") =>
        /\ IsSorted(run.value)
        /\ Cardinality(Range(run.value)) = Len(run.value)
        /\ Range(run.value) = run.heads

----------------------------------------------------------------------------
(* find_build_dir on its own: any mix of entries under the clone *)

LocateRepo == WORKSPACE_DIR \o <<"demo.git-main">>
CandidateNames == {"build", "dist", "out", "target", "app", "output"}

\* a clone whose entry named n is a folder, a regular file or missing
TreeOfKinds(k) ==
    [r \in {<<>>} \cup {<<n>> : n \in {n \in CandidateNames : k[n] # "absent"}} |->
        IF r = <<>> \/ k[r[1]] = "dir" THEN DirNode ELSE FileNode("f1")]

InitLocate ==
    /\ SessionIdle
    /\ \E k \in [CandidateNames -> {"absent", "file", "dir"}] :
          fs = Place((WORKSPACE_DIR :> DirNode), LocateRepo, TreeOfKinds(k))
    /\ run = [op |-> "start", project_type |-> None, value |-> NoPath]

Locate(project_type) ==
    /\ run' = [op |-> "find_build_dir", project_type |-> project_type,
               value |-> find_build_dir(fs, LocateRepo, project_type)]
    /\ UNCHANGED <<repo_url, branches, selected_branch, fetched, fs>>

NextLocate == \E project_type \in ProjectTypes : Locate(project_type)

SpecLocate == InitLocate /\ [][NextLocate]_vars

\* C6: find_build_dir returns the candidate earliest in the type's declared
\* list (UI: build, dist, out; Microservice: target, app, output) among those
\* that are directories under repoPath, and None when there is none; a
\* candidate that is only a regular file is skipped.
C6_FirstCandidateDirectory ==
    /\ BUILD_DIRS("UI") = <<"build", "dist", "out">>
    /\ BUILD_DIRS("Microservice") = <<"target", "app", "output">>
    /\ run.op = "find_build_dir" =>
          LET c == BUILD_DIRS(run.project_type)
              dirs == {i \in 1..Len(c) : (LocateRepo \o <<c[i]>>) \in DOMAIN fs
                                         /\ fs[LocateRepo \o <<c[i]>>].kind = "dir"}
          IN  IF dirs = {} THEN run.value = NoPath
              ELSE \E i \in dirs : /\ \A j \in dirs : i <= j
                                   /\ run.value = LocateRepo \o <<c[i]>>

\* "build" is a regular file, "dist" and "out" are folders: dist is returned
C6_Witness ==
    /\ run.op = "find_build_dir"
    /\ run.project_type = "UI"
    /\ fs[LocateRepo \o <<"build">>].kind = "file"
    /\ is_dir(fs, LocateRepo \o <<"dist">>)
    /\ is_dir(fs, LocateRepo \o <<"out">>)
    /\ run.value = LocateRepo \o <<"dist">>

----------------------------------------------------------------------------
(* clone_repo on its own: repeated calls into one destination *)

CloneDest == WORKSPACE_DIR \o <<"demo.git-main">>

\* the parts of a tree an interrupted clone may leave behind
PartialClones(t) ==
    {S \in SUBSET DOMAIN t :
        \A q \in S : q # <<>> => SubSeq(q, 1, Len(q) - 1) \in S}

CloneTree(branch) ==
    IF branch \in RemoteBranches(U_demo) THEN Content(U_demo, branch)
    ELSE (<<>> :> DirNode)

InitClone ==
    /\ SessionIdle
    /\ fs = (WORKSPACE_DIR :> DirNode)
    /\ run = [op |-> "start", branch |-> None, exc |-> "none", healthy |-> FALSE,
              before |-> <<>>]

Clone(branch, env) ==
    /\ LET r == clone_repo(fs, U_demo, CloneDest, branch, env)
       IN  /\ fs' = r.fs
           /\ run' = [op |-> "clone_repo", branch |-> branch, exc |-> r.exc,
                      healthy |-> (env.rm /\ env.clone = "ok"
                                   /\ branch \in RemoteBranches(U_demo)),
                      before |-> Subtree(fs, CloneDest)]
    /\ UNCHANGED <<repo_url, branches, selected_branch, fetched>>

NextClone ==
    \E branch \in {"main", "dev", "x"} :
        \E env \in [rm : BOOLEAN, clone : {"ok"} \cup GitFailures,
                    left : PartialClones(CloneTree(branch))] :
            Clone(branch, env)

SpecClone == InitClone /\ [][NextClone]_vars

\* C7: after any sequence of clone_repo calls into one destination that ends
\* with a successful clone, the destination holds exactly the content of the
\* branch cloned last, whatever earlier successful or partial clones left
\* there; and a re-clone succeeds whenever the remote and the disk let it.
C7_DestinationHoldsLastClone ==
    run.op = "clone_repo" =>
        /\ run.exc = "none" => Subtree(fs, CloneDest) = Content(U_demo, run.branch)
        /\ run.healthy => run.exc = "none"

\* a successful clone over what another branch's clone had left
C7_Witness ==
    /\ run.op = "clone_repo"
    /\ run.exc = "none"
    /\ \E q \in DOMAIN run.before : q \notin DOMAIN Content(U_demo, run.branch)
    /\ Subtree(fs, CloneDest) = Content(U_demo, run.branch)

----------------------------------------------------------------------------
(* zip_directory on its own: any small tree under the build folder *)

MaxNodes == 3

ZipSource == WORKSPACE_DIR \o <<"demo.git-main", "build">>
ZipDest == WORKSPACE_DIR \o <<"demo.git-main-UI.zip">>

EmptyBuild ==
    (WORKSPACE_DIR :> DirNode) @@ (WORKSPACE_DIR \o <<"demo.git-main">> :> DirNode)
    @@ (ZipSource :> DirNode)

\* the archive an earlier build left at the destination
StaleArchive == ZipNode({[name |-> <<"stale">>, data |-> "f0"]})

Below(f, top) == {q \in DOMAIN f : IsPrefix(top, q) /\ q # top}

InitZip ==
    /\ SessionIdle
    /\ fs \in {EmptyBuild, EmptyBuild @@ (ZipDest :> StaleArchive)}
    /\ run = [op |-> "start", exc |-> "none", had_old |-> FALSE]

\* the build tool wrote a folder or a file before the archive is made
MkDir(parent, n) ==
    /\ run.op = "start"
    /\ Cardinality(Below(fs, ZipSource)) < MaxNodes
    /\ is_dir(fs, parent)
    /\ ~exists(fs, parent \o <<n>>)
    /\ fs' = fs @@ (parent \o <<n>> :> DirNode)
    /\ UNCHANGED <<repo_url, branches, selected_branch, fetched, run>>

WriteFile(parent, n, d) ==
    /\ run.op = "start"
    /\ Cardinality(Below(fs, ZipSource)) < MaxNodes
    /\ is_dir(fs, parent)
    /\ ~exists(fs, parent \o <<n>>)
    /\ fs' = fs @@ (parent \o <<n>> :> FileNode(d))
    /\ UNCHANGED <<repo_url, branches, selected_branch, fetched, run>>

Zip(io_ok) ==
    /\ run.op = "start"
    /\ LET r == zip_directory(fs, ZipSource, ZipDest, io_ok)
       IN  /\ fs' = r.fs
           /\ run' = [op |-> "zip_directory", exc |-> r.exc,
                      had_old |-> exists(fs, ZipDest)]
    /\ UNCHANGED <<repo_url, branches, selected_branch, fetched>>

NextZip ==
    \/ \E parent \in Below(fs, ZipSource) \cup {ZipSource}, n \in {"app", "out"} :
          MkDir(parent, n)
    \/ \E parent \in Below(fs, ZipSource) \cup {ZipSource}, n \in {"app", "out"},
          d \in {"f1", "f2"} : WriteFile(parent, n, d)
    \/ \E io_ok \in BOOLEAN : Zip(io_ok)

SpecZip == InitZip /\ [][NextZip]_vars

\* what unpacking an archive writes: relative path -> bytes
Extracted(es) == [n \in {e.name : e \in es} |-> (CHOOSE e \in es : e.name = n).data]

\* the regular files below top: relative path -> bytes
FilesBelow(f, top) ==
    [r \in {relative_to(q, top) : q \in {q \in Below(f, top) : f[q].kind = "file"}} |->
        f[top \o r].data]

\* C9: the archive's entries are exactly the regular files under sourceDir at
\* any depth, each under its path relative to sourceDir with the file's
\* content, so unpacking reproduces every path and content; a tree with no
\* files gives zero entries, and an archive already at the destination is
\* replaced, not appended to.
C9_ArchiveMirrorsTree ==
    (run.op = "zip_directory" /\ run.exc = "none") =>
        LET es == fs[ZipDest].entries
        IN  /\ Extracted(es) = FilesBelow(fs, ZipSource)
            /\ Cardinality(es) = Cardinality(DOMAIN FilesBelow(fs, ZipSource))
            /\ (\A q \in Below(fs, ZipSource) : fs[q].kind = "dir") => es = {}

\* a nested file archived over an archive that was already there
C9_Witness ==
    /\ run.op = "zip_directory"
    /\ run.exc = "none"
    /\ run.had_old
    /\ \E e \in fs[ZipDest].entries : Len(e.name) = 2
    /\ \E q \in Below(fs, ZipSource) : fs[q].kind = "dir" /\ Below(fs, q) = {}

====
